---- MODULE Spec2Model ----
(***************************************************************************)
(* A model of rlangc: the lexer (lexer.rs), the recursive-descent parser   *)
(* (parser.rs), the AST renderer (ast.rs) and the code generator with its  *)
(* scoped Environment (generator.rs).                                      *)
(*                                                                         *)
(* Text is a sequence of one-character strings, an AST node is a record    *)
(* with a "node" field, a map is a function whose DOMAIN is its key set.   *)
(* A Rust panic (unwrap on None, index out of bounds) is the outcome       *)
(* "Panic"; it is never a ParseError/GeneratorError value.                 *)
(***************************************************************************)
EXTENDS Integers, Sequences, FiniteSets, TLC

VARIABLES
    envs,      \* generator: the Environment chain, envs[1] the root, envs[Len(envs)] the current one
    ret,       \* generator: what generate has returned: [kind, err, code]
    code,      \* generator: the code accumulated per open block (the local `code` of Program / Scope)
    last,      \* the last operation performed, with the state it started from
    script,    \* lexer: the source text
    lexI,      \* lexer: the scan index `i` of lex
    lexTokens, \* lexer: the tokens pushed so far
    lexRet,    \* lexer: "running", "Ok" or the LexerError returned
    ptoks,     \* parser: the reversed token vector of parse
    pbody,     \* parser: the `body` vector of parse
    pret,      \* parser: "running", "Ok", "Panic" or the ParseError returned
    rt,        \* round trip: the stage reached and the values computed
    body,      \* program run: the top-level statements of the Program node
    visited,   \* program run: the statements generate was called on, in call order
    pc         \* the number of statements (or direct calls) done so far

vars == <<envs, ret, code, last, script, lexI, lexTokens, lexRet, ptoks, pbody, pret, rt, body, visited, pc>>

genVars == <<envs, ret, code>>
lexVars == <<script, lexI, lexTokens, lexRet>>
parseVars == <<ptoks, pbody, pret>>
progVars == <<body, visited>>

\* ------------------------------------------------------------------ bounds

MaxStmts == 3      \* statements generated in one run of the generator
MaxDepth == 3      \* nesting depth of Environments (root included)
MaxFields == 2     \* fields in a struct declaration
MaxData == 3       \* elements in a struct literal drawn by the generator
MaxCalls == 3      \* direct calls on an Environment

\* ------------------------------------------------------------------ helpers

Insert(m, k, v) == [x \in (DOMAIN m) \cup {k} |-> IF x = k THEN v ELSE m[x]]

EmptyMap == [x \in {} |-> 0]

RECURSIVE SumSeq(_)
SumSeq(s) == IF s = <<>> THEN 0 ELSE Head(s) + SumSeq(Tail(s))

RECURSIVE SumSet(_, _)
SumSet(S, f) ==
    IF S = {} THEN 0
    ELSE LET x == CHOOSE y \in S : TRUE IN f[x] + SumSet(S \ {x}, f)

\* F applied to the value of v, v evaluated once
Bind(v, F(_)) == CHOOSE y \in {F(x) : x \in {v}} : TRUE

RECURSIVE Concat(_)
Concat(ss) == IF ss = <<>> THEN <<>> ELSE Head(ss) \o Concat(Tail(ss))

\* ------------------------------------------------------------------ generator.rs: data

\* Datatype::Single { size }
Single(size) == [kind |-> "Single", size |-> size, offsets |-> <<>>]

\* Datatype::Struct { size, offsets }
Struct(size, offsets) == [kind |-> "Struct", size |-> size, offsets |-> offsets]

\* Datatype::size
DatatypeSize(dt) == dt.size

\* VariableData { datatype, location }
VariableData(dt, location) == [datatype |-> dt, location |-> location]

\* Environment { parent, top_stack, variables, datatypes }; the parent is the
\* previous element of the chain.
Environment(top, variables, datatypes) ==
    [top_stack |-> top, variables |-> variables, datatypes |-> datatypes]

IntSize == 4

\* main.rs: the root Environment, seeded with the one built-in type
RootEnv == Environment(0, EmptyMap, [n \in {"int"} |-> Single(IntSize)])

\* ------------------------------------------------------------------ generator.rs: Environment

\* Environment::declare_var
declare_var(env, name, var_data) ==
    IF name \in DOMAIN env.variables
    THEN [err |-> "VariableAlreadyExists", env |-> env]
    ELSE [err |-> "none", env |-> [env EXCEPT !.variables = Insert(@, name, var_data)]]

\* Environment::resolve_var on chain[d]: the depth of the Environment that
\* binds name, 0 for Err(VariableDoesNotExist) (d = 0: parent is None)
RECURSIVE resolve_var(_, _, _)
resolve_var(chain, d, name) ==
    IF d = 0 THEN 0
    ELSE IF name \in DOMAIN chain[d].variables THEN d
    ELSE resolve_var(chain, d - 1, name)

\* Environment::lookup_var on the current (last) Environment of chain
lookup_var(chain, name) ==
    LET d == resolve_var(chain, Len(chain), name)
    IN  IF d = 0
        THEN [err |-> "VariableDoesNotExist", var |-> VariableData(Single(0), 0)]
        ELSE [err |-> "none", var |-> chain[d].variables[name]]

\* Environment::declare_datatype
declare_datatype(env, name, datatype) ==
    IF name \in DOMAIN env.datatypes
    THEN [err |-> "DatatypeDoesNotExist", env |-> env]
    ELSE [err |-> "none", env |-> [env EXCEPT !.datatypes = Insert(@, name, datatype)]]

\* Environment::resolve_datatype on chain[d]
RECURSIVE resolve_datatype(_, _, _)
resolve_datatype(chain, d, name) ==
    IF d = 0 THEN 0
    ELSE IF name \in DOMAIN chain[d].datatypes THEN d
    ELSE resolve_datatype(chain, d - 1, name)

\* Environment::lookup_datatype on the current (last) Environment of chain
lookup_datatype(chain, name) ==
    LET d == resolve_datatype(chain, Len(chain), name)
    IN  IF d = 0
        THEN [err |-> "DatatypeDoesNotExist", dt |-> Single(0)]
        ELSE [err |-> "none", dt |-> chain[d].datatypes[name]]

\* ------------------------------------------------------------------ ast.rs: nodes

\* Integer(i32); its field is `number` here, so that no two node records share
\* a field of different types
Integer(v) == [node |-> "Integer", number |-> v]
Float(whole, frac) == [node |-> "Float", whole |-> whole, frac |-> frac]
Identifier(v) == [node |-> "Identifier", value |-> v]
BinOp(l, r) == [node |-> "BinOp", left |-> l, right |-> r, op |-> "Add"]
StructData(data) == [node |-> "StructData", data |-> data]
VarDecl(datatype, name, value) ==
    [node |-> "VarDecl", datatype |-> datatype, name |-> name, value |-> value]
StructDecl(name, properties) ==
    [node |-> "StructDecl", name |-> name, properties |-> properties]
StructType(properties) == [node |-> "StructType", properties |-> properties]
TypeDef(name, value) == [node |-> "TypeDef", name |-> name, value |-> value]
Scope(stmts) == [node |-> "Scope", body |-> stmts]
Program(stmts) == [node |-> "Program", body |-> stmts]

\* ------------------------------------------------------------------ generator.rs: generate

\* One emitted instruction; arg is the immediate or the rbp offset.
Instr(op, arg) == [op |-> op, arg |-> arg]

GenOk(c, chain) == [err |-> "none", code |-> c, chain |-> chain]

\* Err(e): no code comes back. chain is the Environment chain as the failed
\* call left it.
GenErr(e, chain) == [err |-> e, code |-> <<>>, chain |-> chain]

\* The `?` operator on a call's result r: an error returns from the caller at
\* once, with the same error; otherwise the caller goes on with `cont`.
Try(r, cont) == IF r.err # "none" THEN GenErr(r.err, r.chain) ELSE cont

\* fn size(env, properties)
RECURSIVE size(_, _)
size(chain, properties) ==
    IF properties = <<>> THEN [err |-> "none", size |-> 0]
    ELSE LET t == lookup_datatype(chain, Head(properties)[1])
         IN  IF t.err # "none" THEN [err |-> t.err, size |-> 0]
             ELSE LET rest == size(chain, Tail(properties))
                  IN  IF rest.err # "none" THEN rest
                      ELSE [err |-> "none", size |-> DatatypeSize(t.dt) + rest.size]

\* FieldOffsets with each field at the running offset before its own size is
\* added (a zero-based layout)
RECURSIVE FieldOffsetsZeroBased(_, _, _, _)
FieldOffsetsZeroBased(chain, properties, offset, offsets) ==
    IF properties = <<>> THEN [err |-> "none", offsets |-> offsets]
    ELSE LET prop == Head(properties)
             t == lookup_datatype(chain, prop[1])
         IN  IF t.err # "none" THEN [err |-> t.err, offsets |-> offsets]
             ELSE FieldOffsetsZeroBased(chain, Tail(properties), offset + DatatypeSize(t.dt),
                                        Append(offsets, <<prop[2], offset>>))

\* The offsets loop of StructDecl and of TypeDef's StructType arm, started
\* with the running `offset` and the `offsets` vector built so far.
RECURSIVE FieldOffsets(_, _, _, _)
FieldOffsets(chain, properties, offset, offsets) ==
    IF properties = <<>> THEN [err |-> "none", offsets |-> offsets]
    ELSE LET prop == Head(properties)
             t == lookup_datatype(chain, prop[1])
         IN  IF t.err # "none" THEN [err |-> t.err, offsets |-> offsets]
             ELSE FieldOffsets(chain, Tail(properties), offset + DatatypeSize(t.dt),
                               Append(offsets, <<prop[2], offset + DatatypeSize(t.dt)>>))

\* The Datatype::Struct value both struct arms build: offsets first, then
\* size(env, properties).
StructLayout(chain, properties) ==
    LET o == FieldOffsets(chain, properties, 0, <<>>)
    IN  IF o.err # "none" THEN [err |-> o.err, dt |-> Single(0)]
        ELSE LET s == size(chain, properties)
             IN  IF s.err # "none" THEN [err |-> s.err, dt |-> Single(0)]
                 ELSE [err |-> "none", dt |-> Struct(s.size, o.offsets)]

\* declare_datatype on the current Environment of chain, as a generate result
DeclareIn(chain, name, datatype) ==
    LET d == declare_datatype(chain[Len(chain)], name, datatype)
    IN  IF d.err # "none" THEN GenErr(d.err, chain)
        ELSE GenOk(<<>>, [chain EXCEPT ![Len(chain)] = d.env])

RECURSIVE generate(_, _)

\* The StructData arm of VarDecl: `for i in 0..data.len()`, here from element i
\* (1-based) with the code built so far.
RECURSIVE StoreElements(_, _, _, _, _, _)
StoreElements(data, i, acc, chain, location, dt) ==
    IF i > Len(data) THEN GenOk(acc, chain)
    ELSE LET e == generate(data[i], chain)
         IN  IF e.err # "none" THEN GenErr(e.err, e.chain)
             ELSE IF i > Len(dt.offsets) THEN GenErr("Panic", e.chain)
             ELSE StoreElements(data, i + 1,
                      acc \o e.code \o <<Instr("store", location - dt.size + dt.offsets[i][2])>>,
                      e.chain, location, dt)

\* ast::Node::VarDecl
GenVarDecl(n, chain) ==
    IF resolve_var(chain, Len(chain), n.name) # 0 THEN GenErr("VariableAlreadyExists", chain)
    ELSE
    LET t == lookup_datatype(chain, n.datatype) IN
    IF t.err # "none" THEN GenErr(t.err, chain)
    ELSE
    LET env == chain[Len(chain)]
        d == declare_var(env, n.name,
                         VariableData(t.dt, env.top_stack + DatatypeSize(t.dt)))
    IN
    IF d.err # "none" THEN GenErr(d.err, chain)
    ELSE
    LET chain1 == [chain EXCEPT ![Len(chain)] = d.env]
        location == d.env.variables[n.name].location
    IN
    IF n.value.node = "StructData"
    THEN IF t.dt.kind = "Single"
         THEN GenErr("CannotAssignSingleValuetoStruct", chain1)
         ELSE StoreElements(n.value.data, 1, <<>>, chain1, location, t.dt)
    ELSE LET v == generate(n.value, chain1)
         IN  Try(v, GenOk(v.code \o <<Instr("store", location)>>, v.chain))

\* ast::Node::StructDecl
GenStructDecl(n, chain) ==
    IF lookup_datatype(chain, n.name).err = "none"
    THEN GenErr("DatatypeAlreadyExists", chain)
    ELSE LET l == StructLayout(chain, n.properties)
         IN  IF l.err # "none" THEN GenErr(l.err, chain)
             ELSE DeclareIn(chain, n.name, l.dt)

\* ast::Node::TypeDef
GenTypeDef(n, chain) ==
    IF lookup_datatype(chain, n.name).err = "none"
    THEN GenErr("DatatypeAlreadyExists", chain)
    ELSE
    LET v == generate(n.value, chain) IN
    IF v.err # "none" THEN GenErr(v.err, v.chain)
    ELSE
    LET dt == CASE n.value.node = "StructType" -> StructLayout(v.chain, n.value.properties)
                [] n.value.node = "Identifier" -> lookup_datatype(v.chain, n.value.value)
                [] OTHER -> [err |-> "none", dt |-> Single(0)]
    IN  IF dt.err # "none" THEN GenErr(dt.err, v.chain)
        ELSE DeclareIn(v.chain, n.name, dt.dt)

\* ast::Node::BinOp
GenBinOp(n, chain) ==
    LET l == generate(n.left, chain) IN
    IF l.err # "none" THEN GenErr(l.err, l.chain)
    ELSE LET r == generate(n.right, l.chain)
         IN  Try(r, GenOk(l.code \o <<Instr("push_rax", 0)>> \o r.code
                            \o <<Instr("pop_rbx", 0), Instr("add_rax_rbx", 0)>>, r.chain))

\* ast::Node::Identifier
GenIdentifier(n, chain) ==
    LET r == lookup_var(chain, n.value)
    IN  IF r.err # "none" THEN GenErr(r.err, chain)
        ELSE GenOk(<<Instr("load_rax", r.var.location)>>, chain)

\* NewEnv with the child's top_stack left at the parent's
NewEnvAtParentTop(env) == Environment(env.top_stack, EmptyMap, EmptyMap)

\* ast::Node::Scope, up to the loop: the child Environment
NewEnv(env) ==
    Environment(env.top_stack
                    + SumSet(DOMAIN env.variables,
                             [v \in DOMAIN env.variables |-> DatatypeSize(env.variables[v].datatype)]),
                EmptyMap, EmptyMap)

\* The `for expr in body` loop of Scope from statement i on, in the chain that
\* ends with new_env
RECURSIVE ScopeLoop(_, _, _, _)
ScopeLoop(stmts, i, acc, chain) ==
    IF i > Len(stmts) THEN GenOk(acc, chain)
    ELSE LET r == generate(stmts[i], chain)
         IN  IF r.err # "none" THEN GenErr(r.err, r.chain)
             ELSE ScopeLoop(stmts, i + 1, acc \o r.code, r.chain)

\* GenScope with new_env, as the body left it, put in the place of the
\* Environment the block was opened in
GenScopeKeepingBlock(n, chain) ==
    LET r == ScopeLoop(n.body, 1, <<>>, Append(chain, NewEnv(chain[Len(chain)])))
    IN  IF r.err # "none" THEN GenErr(r.err, SubSeq(r.chain, 1, Len(chain)))
        ELSE GenOk(r.code, [chain EXCEPT ![Len(chain)] = r.chain[Len(r.chain)]])

\* ast::Node::Scope as one call: new_env is dropped when the call returns, and
\* the caller is left with its own Environments as the body's calls left them
GenScope(n, chain) ==
    LET r == ScopeLoop(n.body, 1, <<>>, Append(chain, NewEnv(chain[Len(chain)])))
    IN  IF r.err # "none" THEN GenErr(r.err, SubSeq(r.chain, 1, Len(chain)))
        ELSE GenOk(r.code, SubSeq(r.chain, 1, Len(chain)))

\* Node::generate for every variant but Program, whose loop is the actions
\* below. The result carries the Environment chain the call leaves.
generate(n, chain) ==
    CASE n.node = "Integer" -> GenOk(<<Instr("mov_rax", n.number)>>, chain)
      [] n.node = "Float" -> GenOk(<<[op |-> "mov_rax_float", arg |-> n.whole, frac |-> n.frac]>>, chain)
      [] n.node = "VarDecl" -> GenVarDecl(n, chain)
      [] n.node = "StructDecl" -> GenStructDecl(n, chain)
      [] n.node = "StructType" -> GenOk(<<>>, chain)
      [] n.node = "TypeDef" -> GenTypeDef(n, chain)
      [] n.node = "BinOp" -> GenBinOp(n, chain)
      [] n.node = "Identifier" -> GenIdentifier(n, chain)
      [] n.node = "StructData" -> GenOk(<<>>, chain)
      [] n.node = "Scope" -> GenScope(n, chain)

\* ------------------------------------------------------------------ generator inputs

TypeNames == {"int", "S", "T"}
VarNames == {"a", "b", "int"}
FieldNames == <<"x", "y", "z", "w">>

\* properties vectors: every field list of 1..MaxFields fields over TypeNames
PropertyLists ==
    UNION {{[i \in 1..k |-> <<ts[i], FieldNames[i]>>] : ts \in [1..k -> TypeNames]} : k \in 1..MaxFields}

\* expressions parse_expr can build
Exprs ==
    {Integer(1), Identifier("a"), BinOp(Integer(1), Integer(2)), BinOp(Identifier("a"), Integer(1))}

\* struct literals: 1..MaxData integer elements, and one whose element fails
StructLiterals ==
    {StructData([i \in 1..k |-> Integer(i)]) : k \in 1..MaxData} \cup {StructData(<<Identifier("a")>>)}

VarDecls == {VarDecl(t, v, e) : t \in TypeNames, v \in VarNames, e \in Exprs \cup StructLiterals}

StructDecls == {StructDecl(n, ps) : n \in {"S", "T"}, ps \in PropertyLists}

TypeDefValues ==
    {StructType(ps) : ps \in PropertyLists}
    \cup {Identifier(v) : v \in {"int", "S", "a"}}
    \cup {StructDecl(n, <<<<"int", "x">>>>) : n \in {"S", "T"}}
    \cup {Integer(1)}

TypeDefs == {TypeDef(n, v) : n \in {"S", "T"}, v \in TypeDefValues}

ExprStmts == Exprs \cup {StructData(<<Integer(1)>>)}

\* ------------------------------------------------------------------ generator.rs: the run

Idle == [kind |-> "idle"]
Running == [kind |-> "running", err |-> "none", code |-> <<>>]
RetOk(c) == [kind |-> "Ok", err |-> "none", code |-> c]
RetErr(e) == [kind |-> "Err", err |-> e, code |-> <<>>]

Prologue == <<Instr("prologue", 0)>>
Epilogue == <<Instr("epilogue", 0)>>

Called(n, r) ==
    [op |-> "generate", node |-> n, pre |-> envs, err |-> r.err, code |-> r.code, post |-> r.chain]

\* AfterStatement with the statement's error dropped and the loop going on
AfterStatementIgnoringErr(r) ==
    [ret |-> ret, envs |-> r.chain, code |-> [code EXCEPT ![Len(code)] = @ \o r.code]]

\* `code += &expr.generate(env)?` in the loop of Program (depth 1) or Scope
\* (deeper), given the call's result r: an error leaves every open loop at
\* once; the child Environments are dropped and the root, owned by the caller,
\* stays as the failed statement left it.
AfterStatement(r) ==
    IF r.err # "none"
    THEN [ret |-> RetErr(r.err), envs |-> SubSeq(r.chain, 1, 1), code |-> <<>>]
    ELSE [ret |-> ret, envs |-> r.chain, code |-> [code EXCEPT ![Len(code)] = @ \o r.code]]

\* One iteration of the `for expr in body` loop on statement n
Statement(n) ==
    /\ ret.kind = "running"
    /\ pc < MaxStmts
    /\ LET r == generate(n, envs)
           a == AfterStatement(r)
       IN  /\ last' = Called(n, r)
           /\ ret' = a.ret
           /\ envs' = a.envs
           /\ code' = a.code
    /\ pc' = pc + 1

GenVarDeclStmt == \E n \in VarDecls : Statement(n)
GenStructDeclStmt == \E n \in StructDecls : Statement(n)
GenTypeDefStmt == \E n \in TypeDefs : Statement(n)
GenExprStmt == \E n \in ExprStmts : Statement(n)

\* ast::Node::Scope, up to the loop, as a step of its own: the block is opened
EnterScope ==
    /\ ret.kind = "running"
    /\ pc < MaxStmts
    /\ Len(envs) < MaxDepth
    /\ envs' = Append(envs, NewEnv(envs[Len(envs)]))
    /\ code' = Append(code, <<>>)
    /\ last' = [op |-> "enter", pre |-> envs]
    /\ pc' = pc + 1
    /\ ret' = ret

\* ast::Node::Scope, after the loop: Ok(code); new_env is dropped, and the
\* caller's loop appends the block's code
ExitScope ==
    /\ ret.kind = "running"
    /\ Len(envs) > 1
    /\ envs' = SubSeq(envs, 1, Len(envs) - 1)
    /\ code' = [SubSeq(code, 1, Len(code) - 1) EXCEPT ![Len(code) - 1] = @ \o code[Len(code)]]
    /\ last' = [op |-> "exit", pre |-> envs]
    /\ UNCHANGED <<pc, ret>>

\* ast::Node::Program, after the loop: the epilogue and Ok(code)
Finish ==
    /\ ret.kind = "running"
    /\ Len(envs) = 1
    /\ ret' = RetOk(code[1] \o Epilogue)
    /\ code' = <<>>
    /\ last' = [op |-> "finish", pre |-> envs]
    /\ UNCHANGED <<envs, pc>>

NoLex == /\ script = <<>> /\ lexI = 0 /\ lexTokens = <<>> /\ lexRet = "idle"
NoParse == /\ ptoks = <<>> /\ pbody = <<>> /\ pret = "idle"
NoRt == rt = [stage |-> "idle"]
NoProg == /\ body = <<>> /\ visited = <<>>
NoGen == /\ envs = <<>> /\ ret = Idle /\ code = <<>>

\* build() of main.rs from `let mut env` on: the root Environment, then
\* Program's prologue
GenInit ==
    /\ envs = <<RootEnv>>
    /\ ret = Running
    /\ code = <<Prologue>>

Init ==
    /\ GenInit
    /\ last = [op |-> "none"]
    /\ NoProg /\ pc = 0
    /\ NoLex /\ NoParse /\ NoRt

Next ==
    \/ (GenVarDeclStmt /\ UNCHANGED <<lexVars, parseVars, rt, progVars>>)
    \/ (GenStructDeclStmt /\ UNCHANGED <<lexVars, parseVars, rt, progVars>>)
    \/ (GenTypeDefStmt /\ UNCHANGED <<lexVars, parseVars, rt, progVars>>)
    \/ (GenExprStmt /\ UNCHANGED <<lexVars, parseVars, rt, progVars>>)
    \/ (EnterScope /\ UNCHANGED <<lexVars, parseVars, rt, progVars>>)
    \/ (ExitScope /\ UNCHANGED <<lexVars, parseVars, rt, progVars>>)
    \/ (Finish /\ UNCHANGED <<lexVars, parseVars, rt, progVars>>)

Spec == Init /\ [][Next]_vars

\* ------------------------------------------------------------------ claims on the generator

\* the Environment a generate call ran in, and the one it left
PreEnv == last.pre[Len(last.pre)]
PostEnv == last.post[Len(last.pre)]

IsGen(kind) == last.op = "generate" /\ last.node.node = kind

\* C1: a VarDecl whose name is bound in the same scope fails with
\* VariableAlreadyExists; a VarDecl in a nested scope whose name is bound only
\* in an ancestor scope does not, and (its type resolving) binds the name in
\* the child scope.
C1_RedeclareAndShadow ==
    IsGen("VarDecl") =>
        /\ (last.node.name \in DOMAIN PreEnv.variables => last.err = "VariableAlreadyExists")
        /\ (/\ last.node.name \notin DOMAIN PreEnv.variables
            /\ resolve_var(last.pre, Len(last.pre), last.node.name) # 0)
           => /\ last.err # "VariableAlreadyExists"
              /\ (lookup_datatype(last.pre, last.node.datatype).err = "none"
                  => last.node.name \in DOMAIN PostEnv.variables)

\* the same-scope half of C1 happens: a redeclaration in one scope was refused
C1_SameScopeWitness ==
    /\ IsGen("VarDecl")
    /\ last.node.name \in DOMAIN PreEnv.variables
    /\ last.err = "VariableAlreadyExists"

\* every binding of the live chain, as <<depth, name>>
LiveVars == {<<d, v>> \in (1..Len(envs)) \X VarNames : v \in DOMAIN envs[d].variables}

VarAt(b) == envs[b[1]].variables[b[2]]

\* the storage ranges (location - size, location] of two bindings are disjoint
Disjoint(x, y) ==
    \/ x.location - DatatypeSize(x.datatype) >= y.location
    \/ y.location - DatatypeSize(y.datatype) >= x.location

\* C2: any two variables bound at once in the Environment chain, of non-zero
\* size, occupy disjoint storage ranges.
C2_NoOverlap ==
    \A b1 \in LiveVars : \A b2 \in LiveVars :
        (b1 # b2 /\ DatatypeSize(VarAt(b1).datatype) > 0 /\ DatatypeSize(VarAt(b2).datatype) > 0)
            => Disjoint(VarAt(b1), VarAt(b2))

\* the sizes of the fields of a properties vector, resolved in chain
FieldSizes(chain, properties) ==
    [i \in 1..Len(properties) |-> DatatypeSize(lookup_datatype(chain, properties[i][1]).dt)]

\* the layout the specification gives a properties vector whose sizes are fs
LayoutOk(dt, properties, fs) ==
    /\ dt.kind = "Struct"
    /\ Len(dt.offsets) = Len(properties)
    /\ \A i \in 1..Len(properties) :
        /\ dt.offsets[i][1] = properties[i][2]
        /\ dt.offsets[i][2] = SumSeq(SubSeq(fs, 1, i))
    /\ \A i \in 1..(Len(properties) - 1) : dt.offsets[i][2] <= dt.offsets[i + 1][2]
    /\ dt.size = SumSeq(fs)
    /\ dt.size = dt.offsets[Len(properties)][2]

IntPair == <<<<"int", "x">>, <<"int", "y">>>>

\* C7: a StructDecl, or a TypeDef of a StructType, that generates registers a
\* Struct with one offset per field in declaration order, field i at the sum
\* of the sizes of fields 1..i, offsets non-decreasing, size the sum of all
\* field sizes and equal to the last offset; two int fields give x@4, y@8 and
\* size 8.
C7_StructLayout ==
    /\ (IsGen("StructDecl") /\ last.err = "none")
        => /\ LayoutOk(PostEnv.datatypes[last.node.name], last.node.properties,
                       FieldSizes(last.pre, last.node.properties))
           /\ (last.node.properties = IntPair
               => PostEnv.datatypes[last.node.name] = Struct(8, <<<<"x", 4>>, <<"y", 8>>>>))
    /\ (IsGen("TypeDef") /\ last.node.value.node = "StructType" /\ last.err = "none")
        => /\ LayoutOk(PostEnv.datatypes[last.node.name], last.node.value.properties,
                       FieldSizes(last.pre, last.node.value.properties))
           /\ (last.node.value.properties = IntPair
               => PostEnv.datatypes[last.node.name] = Struct(8, <<<<"x", 4>>, <<"y", 8>>>>))

\* a struct of two fields, the second of struct type, was registered
C7_Witness ==
    /\ IsGen("StructDecl") /\ last.err = "none"
    /\ Len(last.node.properties) = 2
    /\ last.node.properties[1][1] = "int"
    /\ lookup_datatype(last.pre, last.node.properties[2][1]).dt.kind = "Struct"

\* C9: a TypeDef whose value is an Identifier naming an existing type, under an
\* alias that is no known type, succeeds, emits no code and registers under
\* the alias the Datatype of the named type.
C9_PureAlias ==
    (/\ IsGen("TypeDef") /\ last.node.value.node = "Identifier"
     /\ lookup_datatype(last.pre, last.node.value.value).err = "none"
     /\ lookup_datatype(last.pre, last.node.name).err # "none")
        => /\ last.err = "none"
           /\ last.code = <<>>
           /\ last.node.name \in DOMAIN PostEnv.datatypes
           /\ PostEnv.datatypes[last.node.name] = lookup_datatype(last.pre, last.node.value.value).dt

\* the sizes of the variables of an Environment, summed
VariablesSize(env) ==
    SumSet(DOMAIN env.variables,
           [v \in DOMAIN env.variables |-> DatatypeSize(env.variables[v].datatype)])

\* C14: the top_stack of a block's Environment is its parent's top_stack
\* plus the sizes of the parent's variables, and the storage range
\* (location - size, location] of a variable of a block starts at or above
\* the location of every variable bound in an enclosing Environment, so the
\* two ranges are disjoint.
C14_ChildAboveAncestors ==
    /\ \A d \in 2..Len(envs) :
          envs[d].top_stack = envs[d - 1].top_stack + VariablesSize(envs[d - 1])
    /\ \A b1 \in LiveVars : \A b2 \in LiveVars :
          b1[1] < b2[1]
              => /\ VarAt(b2).location - DatatypeSize(VarAt(b2).datatype) >= VarAt(b1).location
                 /\ Disjoint(VarAt(b1), VarAt(b2))

\* a block binds a variable of non-zero size while an enclosing Environment
\* binds one of its own
C14_Witness ==
    /\ Len(envs) >= 2
    /\ \E b1 \in LiveVars : \E b2 \in LiveVars :
          /\ b1[1] < b2[1]
          /\ DatatypeSize(VarAt(b1).datatype) > 0
          /\ DatatypeSize(VarAt(b2).datatype) > 0

\* enum GeneratorError
GeneratorErrors ==
    {"VariableAlreadyExists", "VariableDoesNotExist", "DatatypeAlreadyExists",
     "DatatypeDoesNotExist", "CannotAssignSingleValuetoStruct"}

\* the last call generated a VarDecl of a struct type with a literal
IsStructInit ==
    /\ IsGen("VarDecl")
    /\ last.node.value.node = "StructData"
    /\ resolve_var(last.pre, Len(last.pre), last.node.name) = 0
    /\ lookup_datatype(last.pre, last.node.datatype).err = "none"
    /\ lookup_datatype(last.pre, last.node.datatype).dt.kind = "Struct"

IsStore(ins) == ins.op = "store"

\* C15: a VarDecl of struct type with a literal of any length returns code or
\* a GeneratorError; when it returns code, element i is stored at
\* location - size + offsets[i] of a field i the struct has.
C15_LiteralWithinFields ==
    IsStructInit =>
        LET dt == lookup_datatype(last.pre, last.node.datatype).dt
            stores == SelectSeq(last.code, IsStore)
        IN  /\ last.err \in GeneratorErrors \cup {"none"}
            /\ last.err = "none"
                => /\ Len(stores) = Len(last.node.value.data)
                   /\ Len(stores) <= Len(dt.offsets)
                   /\ \A i \in 1..Len(stores) :
                         stores[i].arg = PostEnv.variables[last.node.name].location
                                             - dt.size + dt.offsets[i][2]

\* a literal with fewer elements than the struct has fields was stored
C15_Witness ==
    /\ IsStructInit
    /\ last.err = "none"
    /\ Len(last.node.value.data)
           < Len(lookup_datatype(last.pre, last.node.datatype).dt.offsets)

\* ------------------------------------------------------------------ the Environment's operations, called directly

SomeDatatypes == {Single(IntSize), Single(0), Struct(8, <<<<"x", 4>>, <<"y", 8>>>>)}

SomeVariables == {VariableData(dt, l) : dt \in SomeDatatypes, l \in {4, 8}}

\* env.declare_var(name, var_data) on the current Environment
EnvDeclareVar ==
    /\ pc < MaxCalls
    /\ \E name \in VarNames, vd \in SomeVariables :
        LET env == envs[Len(envs)]
            r == declare_var(env, name, vd)
        IN  /\ envs' = [envs EXCEPT ![Len(envs)] = r.env]
            /\ last' = [op |-> "declare_var", name |-> name, value |-> vd,
                        pre |-> env, err |-> r.err, post |-> r.env]
    /\ pc' = pc + 1

\* env.declare_datatype(name, datatype) on the current Environment
EnvDeclareDatatype ==
    /\ pc < MaxCalls
    /\ \E name \in TypeNames, dt \in SomeDatatypes :
        LET env == envs[Len(envs)]
            r == declare_datatype(env, name, dt)
        IN  /\ envs' = [envs EXCEPT ![Len(envs)] = r.env]
            /\ last' = [op |-> "declare_datatype", name |-> name, value |-> dt,
                        pre |-> env, err |-> r.err, post |-> r.env]
    /\ pc' = pc + 1

\* Environment { parent: Some(env), .. }: a child of the current Environment
EnvChild ==
    /\ pc < MaxCalls
    /\ Len(envs) < MaxDepth
    /\ envs' = Append(envs, NewEnv(envs[Len(envs)]))
    /\ last' = [op |-> "child"]
    /\ pc' = pc + 1

EnvInit ==
    /\ envs = <<RootEnv>>
    /\ ret = Idle /\ code = <<>>
    /\ last = [op |-> "none"]
    /\ NoProg /\ pc = 0
    /\ NoLex /\ NoParse /\ NoRt

EnvNext ==
    \/ (EnvDeclareVar /\ UNCHANGED <<ret, code, lexVars, parseVars, rt, progVars>>)
    \/ (EnvDeclareDatatype /\ UNCHANGED <<ret, code, lexVars, parseVars, rt, progVars>>)
    \/ (EnvChild /\ UNCHANGED <<ret, code, lexVars, parseVars, rt, progVars>>)

SpecEnv == EnvInit /\ [][EnvNext]_vars

\* C8: declare_datatype fails with DatatypeAlreadyExists exactly when the name
\* is in the current Environment's type table, leaving the table as it was;
\* otherwise it succeeds and the table gains the name with the given type.
C8_DeclareDatatype ==
    last.op = "declare_datatype" =>
        /\ last.err \in {"none", "DatatypeAlreadyExists"}
        /\ (last.err = "DatatypeAlreadyExists") <=> (last.name \in DOMAIN last.pre.datatypes)
        /\ (last.err # "none" => last.post = last.pre)
        /\ (last.err = "none"
            => last.post = [last.pre EXCEPT !.datatypes = Insert(@, last.name, last.value)])

\* ------------------------------------------------------------------ generator.rs: Program over a given body

MaxProg == 3       \* top-level statements in a Program

\* top-level statements: declarations that succeed, that fail before and after
\* they declare, expressions, and blocks that succeed and that fail inside
ProgStmts ==
    { VarDecl("int", "a", Integer(1)),
      VarDecl("int", "b", Identifier("a")),
      VarDecl("S", "b", StructData(<<Integer(1), Integer(2)>>)),
      StructDecl("S", IntPair),
      TypeDef("T", StructType(<<<<"S", "x">>>>)),
      Integer(1),
      Identifier("a"),
      Scope(<<VarDecl("int", "b", Integer(1)), Identifier("b")>>),
      Scope(<<StructDecl("T", IntPair), VarDecl("T", "a", Identifier("b"))>>) }

Programs == UNION {[1..k -> ProgStmts] : k \in 0..MaxProg}

\* ast::Node::Program: one iteration of `for expr in body`
ProgStatement ==
    /\ ret.kind = "running"
    /\ pc < Len(body)
    /\ LET n == body[pc + 1]
           r == generate(n, envs)
           a == AfterStatement(r)
       IN  /\ last' = Called(n, r)
           /\ visited' = Append(visited, n)
           /\ ret' = a.ret
           /\ envs' = a.envs
           /\ code' = a.code
    /\ pc' = pc + 1
    /\ UNCHANGED body

\* ast::Node::Program: the loop is over, the epilogue and Ok(code)
ProgFinish ==
    /\ ret.kind = "running"
    /\ pc = Len(body)
    /\ ret' = RetOk(code[1] \o Epilogue)
    /\ code' = <<>>
    /\ last' = [op |-> "finish", pre |-> envs]
    /\ UNCHANGED <<envs, pc, body, visited>>

ProgInit ==
    /\ GenInit
    /\ last = [op |-> "none"]
    /\ body \in Programs
    /\ visited = <<>>
    /\ pc = 0
    /\ NoLex /\ NoParse /\ NoRt

ProgNext ==
    \/ (ProgStatement /\ UNCHANGED <<lexVars, parseVars, rt>>)
    \/ (ProgFinish /\ UNCHANGED <<lexVars, parseVars, rt>>)

SpecProg == ProgInit /\ [][ProgNext]_vars

\* C10: the statements of a Program are generated in source order; the first
\* one that fails ends the run: generate returns that statement's error and
\* no code, no later statement is generated, and the Environment is as the
\* failed statement left it.
C10_FirstFailureTerminal ==
    /\ Len(visited) <= Len(body)
    /\ visited = SubSeq(body, 1, Len(visited))
    /\ (last.op = "generate" /\ last.err # "none")
        => /\ ret = RetErr(last.err)
           /\ envs = <<last.post[1]>>
    /\ ret.kind = "Err"
        => /\ last.op = "generate"
           /\ last.node = visited[Len(visited)]
           /\ last.err = ret.err
           /\ ret.code = <<>>
    /\ ret.kind = "Ok" => visited = body

\* a Program of three statements failed at its second one
C10_Witness ==
    /\ Len(body) = 3
    /\ ret.kind = "Err"
    /\ Len(visited) = 2

\* the names a block's own statements declare: variables, and datatypes
DeclaredVars(stmts) ==
    {stmts[i].name : i \in {j \in 1..Len(stmts) : stmts[j].node = "VarDecl"}}

DeclaredTypes(stmts) ==
    {stmts[i].name : i \in {j \in 1..Len(stmts) : stmts[j].node \in {"StructDecl", "TypeDef"}}}

\* C11: a Scope that generates leaves the enclosing Environments as they
\* were: variable table, type table and top_stack; a name the block declared
\* and the caller did not know does not resolve after the block
\* (VariableDoesNotExist, DatatypeDoesNotExist), and a block opened next
\* starts at the top_stack this one started at.
C11_ScopeFrame ==
    (IsGen("Scope") /\ last.err = "none") =>
        /\ last.post = last.pre
        /\ envs = last.pre
        /\ \A v \in DeclaredVars(last.node.body) :
              lookup_var(last.pre, v).err # "none"
                  => lookup_var(envs, v).err = "VariableDoesNotExist"
        /\ \A t \in DeclaredTypes(last.node.body) :
              lookup_datatype(last.pre, t).err # "none"
                  => lookup_datatype(envs, t).err = "DatatypeDoesNotExist"
        /\ NewEnv(envs[Len(envs)]).top_stack = NewEnv(PreEnv).top_stack

\* a block that declared a datatype and a variable of it was generated, in an
\* Environment that binds a variable of its own
C11_Witness ==
    /\ IsGen("Scope") /\ last.err = "none"
    /\ DeclaredVars(last.node.body) # {}
    /\ DeclaredTypes(last.node.body) # {}
    /\ DOMAIN PreEnv.variables # {}
    /\ \A v \in DeclaredVars(last.node.body) : lookup_var(envs, v).err = "VariableDoesNotExist"

\* ------------------------------------------------------------------ lexer.rs

\* char::is_alphabetic, char::is_digit(10), char::is_whitespace on the ASCII
\* characters the model's texts are written in
Letters ==
    {"a", "b", "c", "d", "e", "f", "g", "h", "i", "j", "k", "l", "m",
     "n", "o", "p", "q", "r", "s", "t", "u", "v", "w", "x", "y", "z"}
Digits == {"0", "1", "2", "3", "4", "5", "6", "7", "8", "9"}
IsAlphabetic(c) == c \in Letters
IsDigit(c) == c \in Digits
IsAlphanumeric(c) == c \in Letters \cup Digits
IsWhitespace(c) == c \in {" ", "\n", "\t"}

\* Token { token_type, value, start_index, end_index }
Token(type, value, start, end) ==
    [token_type |-> type, value |-> value, start_index |-> start, end_index |-> end]

\* KEYWORDS, and the lookup parse_word makes in it
KeywordOrIdentifier(word) ==
    CASE word = <<"f", "n">> -> "Fn"
      [] word = <<"t", "y", "p", "e", "d", "e", "f">> -> "TypeDef"
      [] word = <<"s", "t", "r", "u", "c", "t">> -> "Struct"
      [] OTHER -> "Identifier"

\* the tokens lex pushes for single characters
Punctuation == {",", ";", "=", "+", "{", "}"}

PunctuationType(c) ==
    CASE c = "," -> "Comma"
      [] c = ";" -> "Semicolon"
      [] c = "=" -> "Equals"
      [] c = "+" -> "Add"
      [] c = "{" -> "OpenBrace"
      [] c = "}" -> "CloseBrace"

\* The loop of parse_word at 0-based index i: `end` is set only when a
\* character that is not alphanumeric stops the loop, and is 0 otherwise.
RECURSIVE WordLoop(_, _, _)
WordLoop(text, i, word) ==
    IF i >= Len(text) THEN [value |-> word, end |-> 0]
    ELSE IF IsAlphanumeric(text[i + 1]) THEN WordLoop(text, i + 1, Append(word, text[i + 1]))
    ELSE [value |-> word, end |-> i - 1]

\* fn parse_word
parse_word(index, text) ==
    LET w == WordLoop(text, index, <<>>)
    IN  [err |-> "none", end |-> w.end,
         token |-> Token(KeywordOrIdentifier(w.value), w.value, index, w.end)]

\* The loop of parse_number at 0-based index i
RECURSIVE NumberLoop(_, _, _, _)
NumberLoop(text, i, number, dot_count) ==
    IF i >= Len(text) THEN [err |-> "none", value |-> number, end |-> 0, dot_count |-> dot_count]
    ELSE IF text[i + 1] = "."
         THEN IF dot_count = 0
              THEN NumberLoop(text, i + 1, Append(number, "."), 1)
              ELSE [err |-> "InvalidFloat", value |-> number, end |-> 0, dot_count |-> dot_count]
    ELSE IF ~IsDigit(text[i + 1])
         THEN [err |-> "none", value |-> number, end |-> i - 1, dot_count |-> dot_count]
    ELSE NumberLoop(text, i + 1, Append(number, text[i + 1]), dot_count)

\* fn parse_number
parse_number(index, text) ==
    LET n == NumberLoop(text, index, <<>>, 0)
    IN  [err |-> n.err, end |-> n.end,
         token |-> Token(IF n.dot_count = 0 THEN "Integer" ELSE "Float", n.value, index, n.end)]

LexState(r, i, tokens) == [ret |-> r, i |-> i, tokens |-> tokens]

\* The body of lex's `while i < script.len()` loop, run once at index i
LexIteration(text, i, tokens) ==
    LET c == text[i + 1] IN
    IF IsWhitespace(c) THEN LexState("running", i + 1, tokens)
    ELSE IF c \in Punctuation
         THEN LexState("running", i + 1, Append(tokens, Token(PunctuationType(c), <<c>>, i, i)))
    ELSE IF IsAlphabetic(c)
         THEN LET w == parse_word(i, text)
              IN  LexState("running", w.end + 1, Append(tokens, w.token))
    ELSE IF IsDigit(c)
         THEN LET n == parse_number(i, text)
              IN  IF n.err # "none" THEN LexState(n.err, i, tokens)
                  ELSE LexState("running", n.end + 1, Append(tokens, n.token))
    ELSE LexState("IllegalCharacter", i, tokens)

\* ------------------------------------------------------------------ lexer.rs: the scan, step by step

MaxSrc == 3        \* characters in a source text
MaxTokens == 5     \* tokens a scan may push before the model stops following it

SrcAlphabet == {"1", "2", "+", "a", "f", "n", " ", ".", "$", ";"}

Sources == UNION {[1..k -> SrcAlphabet] : k \in 0..MaxSrc}

\* one iteration of the loop of lex
LexStep ==
    /\ lexRet = "running"
    /\ lexI < Len(script)
    /\ Len(lexTokens) < MaxTokens
    /\ LET r == LexIteration(script, lexI, lexTokens)
       IN  /\ lexRet' = r.ret
           /\ lexI' = r.i
           /\ lexTokens' = r.tokens
    /\ UNCHANGED script

\* the loop condition fails: Ok(tokens)
LexReturn ==
    /\ lexRet = "running"
    /\ lexI >= Len(script)
    /\ lexRet' = "Ok"
    /\ UNCHANGED <<script, lexI, lexTokens>>

LexInit ==
    /\ script \in Sources
    /\ lexI = 0
    /\ lexTokens = <<>>
    /\ lexRet = "running"
    /\ NoGen /\ NoParse /\ NoRt /\ NoProg
    /\ pc = 0
    /\ last = [op |-> "none"]

LexNext ==
    \/ (LexStep /\ UNCHANGED <<genVars, parseVars, rt, progVars, pc, last>>)
    \/ (LexReturn /\ UNCHANGED <<genVars, parseVars, rt, progVars, pc, last>>)

SpecLex == LexInit /\ [][LexNext]_vars

\* C3: the scan index of lex never moves backwards, so the scan of a finite
\* text ends.
C3_IndexNeverBack == [][lexI' >= lexI]_vars

\* the scan of a text that ends with a word or a numeral came back to an index
\* it had passed
C3_Witness ==
    /\ lexRet = "running"
    /\ lexTokens # <<>>
    /\ lexI <= lexTokens[Len(lexTokens)].start_index

OnePlusTwo == <<"1", "+", "2">>

OnePlusTwoTokens ==
    <<Token("Integer", <<"1">>, 0, 0), Token("Add", <<"+">>, 1, 1), Token("Integer", <<"2">>, 2, 2)>>

\* C4: every token lex has pushed has start_index <= end_index, its value is
\* the text from start_index to end_index inclusive, and it starts after the
\* end of the token before it; lexing "1+2" pushes Integer("1"), Add,
\* Integer("2") with spans 0-0, 1-1, 2-2 and nothing else.
C4_TokenSpans ==
    /\ \A k \in 1..Len(lexTokens) :
        /\ lexTokens[k].start_index <= lexTokens[k].end_index
        /\ lexTokens[k].value = SubSeq(script, lexTokens[k].start_index + 1, lexTokens[k].end_index + 1)
        /\ (k > 1 => lexTokens[k].start_index > lexTokens[k - 1].end_index)
    /\ script = OnePlusTwo
        => /\ Len(lexTokens) <= 3
           /\ lexTokens = SubSeq(OnePlusTwoTokens, 1, Len(lexTokens))

\* ------------------------------------------------------------------ parser.rs

\* In the parser and the renderer a String (a token's value, a name of the
\* AST) is the sequence of its characters.

\* Vec::last and Vec::pop on the reversed token vector
LastTok(tokens) == tokens[Len(tokens)]
Popped(tokens) == SubSeq(tokens, 1, Len(tokens) - 1)

\* tokens.reverse()
Reverse(v) == [k \in 1..Len(v) |-> v[Len(v) + 1 - k]]

\* ParseError::ExpectedToken(token_type)
ExpectedToken(token_type) == "ExpectedToken(" \o token_type \o ")"

NoNode == [node |-> "none"]
POk(ast, tokens) == [err |-> "none", ast |-> ast, tokens |-> tokens]
PErr(e, tokens) == [err |-> e, ast |-> NoNode, tokens |-> tokens]

\* Option::unwrap on the None of an empty vector, Result::unwrap on an Err
Panic(tokens) == PErr("Panic", tokens)

\* fn expect: the token it returns is in `ast`
expect(tokens, token_type) ==
    IF tokens = <<>> THEN Panic(tokens)
    ELSE IF LastTok(tokens).token_type # token_type
         THEN PErr(ExpectedToken(token_type), Popped(tokens))
         ELSE POk(LastTok(tokens), Popped(tokens))

I32Max == 2147483647

DigitValue(c) ==
    CASE c = "0" -> 0 [] c = "1" -> 1 [] c = "2" -> 2 [] c = "3" -> 3 [] c = "4" -> 4
      [] c = "5" -> 5 [] c = "6" -> 6 [] c = "7" -> 7 [] c = "8" -> 8 [] c = "9" -> 9

RECURSIVE DecimalValue(_)
DecimalValue(digits) ==
    IF digits = <<>> THEN 0
    ELSE 10 * DecimalValue(SubSeq(digits, 1, Len(digits) - 1)) + DigitValue(digits[Len(digits)])

RECURSIVE WithoutTrailingZeros(_)
WithoutTrailingZeros(digits) ==
    IF digits # <<>> /\ digits[Len(digits)] = "0"
    THEN WithoutTrailingZeros(SubSeq(digits, 1, Len(digits) - 1))
    ELSE digits

\* the place of the "." in a numeral, 0 when it has none
DotAt(text) == IF \E i \in 1..Len(text) : text[i] = "." THEN CHOOSE i \in 1..Len(text) : text[i] = "." ELSE 0

\* token.value.parse::<f32>() on a numeral of parse_number with one ".": the
\* value is its whole part and its fraction digits without trailing zeros
\* (short decimals, which an f32 holds to the digit)
ParseF32(text) ==
    Float(DecimalValue(SubSeq(text, 1, DotAt(text) - 1)),
          WithoutTrailingZeros(SubSeq(text, DotAt(text) + 1, Len(text))))

RECURSIVE parse_stmt(_)
RECURSIVE parse_expr(_)

\* the loop of the OpenBrace arm of parse_primary, with the `data` built so far
RECURSIVE StructDataLoop(_, _)
StructDataLoop(tokens, data) ==
    Bind(parse_expr(tokens), LAMBDA e :
        IF e.err # "none" THEN e
        ELSE IF e.tokens = <<>> THEN Panic(e.tokens)
        ELSE IF LastTok(e.tokens).token_type = "CloseBrace"
             THEN POk(StructData(Append(data, e.ast)), Popped(e.tokens))
        ELSE IF LastTok(e.tokens).token_type = "Comma"
             THEN StructDataLoop(Popped(e.tokens), Append(data, e.ast))
        ELSE StructDataLoop(e.tokens, Append(data, e.ast)))

\* the `match` of parse_primary on the token popped
PrimaryOf(token, rest) ==
    CASE token.token_type = "Integer" ->
            IF DecimalValue(token.value) > I32Max THEN Panic(rest)
            ELSE POk(Integer(DecimalValue(token.value)), rest)
      [] token.token_type = "Float" -> POk(ParseF32(token.value), rest)
      [] token.token_type = "Identifier" -> POk(Identifier(token.value), rest)
      [] token.token_type = "OpenBrace" -> StructDataLoop(rest, <<>>)
      [] OTHER -> PErr("InvalidToken", rest)

\* fn parse_primary
parse_primary(tokens) ==
    Bind(tokens, LAMBDA ts :
        IF ts = <<>> THEN Panic(ts) ELSE PrimaryOf(LastTok(ts), Popped(ts)))

\* the `while` loop of parse_expr, with the `left` built so far
RECURSIVE ExprLoop(_, _)
ExprLoop(tokens, left) ==
    IF Len(tokens) > 0 /\ LastTok(tokens).token_type = "Add"
    THEN Bind(parse_primary(Popped(tokens)), LAMBDA right :
            IF right.err # "none" THEN right
            ELSE ExprLoop(right.tokens, BinOp(left, right.ast)))
    ELSE POk(left, tokens)

\* fn parse_expr
parse_expr(tokens) ==
    Bind(parse_primary(tokens), LAMBDA left :
        IF left.err # "none" THEN left ELSE ExprLoop(left.tokens, left.ast))

\* fn parse_var_decl
parse_var_decl(tokens) ==
    IF tokens = <<>> THEN Panic(tokens)
    ELSE
    Bind(expect(Popped(tokens), "Identifier"), LAMBDA var_name :
        IF var_name.err # "none" THEN var_name
        ELSE
        Bind(expect(var_name.tokens, "Equals"), LAMBDA eq :
            IF eq.err # "none" THEN eq
            ELSE
            Bind(parse_expr(eq.tokens), LAMBDA ast :
                IF ast.err # "none" THEN ast
                ELSE POk(VarDecl(LastTok(tokens).value, var_name.ast.value, ast.ast),
                         ast.tokens))))

\* the loop of parse_scope, with the `body` built so far
RECURSIVE ScopeBodyLoop(_, _)
ScopeBodyLoop(tokens, stmts) ==
    Bind(parse_stmt(tokens), LAMBDA ast :
        IF ast.err # "none" THEN Panic(ast.tokens)
        ELSE IF ast.tokens = <<>> THEN Panic(ast.tokens)
        ELSE IF LastTok(ast.tokens).token_type = "CloseBrace"
             THEN POk(Scope(Append(stmts, ast.ast)), Popped(ast.tokens))
        ELSE ScopeBodyLoop(ast.tokens, Append(stmts, ast.ast)))

\* fn parse_scope
parse_scope(tokens) ==
    IF tokens = <<>> THEN Panic(tokens)
    ELSE IF LastTok(tokens).token_type # "OpenBrace" THEN PErr("InvalidToken", tokens)
    ELSE ScopeBodyLoop(Popped(tokens), <<>>)

\* the field loop of parse_type (the same in both arms), with the `properties`
\* built so far; the result's `ast` is the properties vector
RECURSIVE PropertiesLoop(_, _)
PropertiesLoop(tokens, properties) ==
    Bind(expect(tokens, "Identifier"), LAMBDA datatype :
        IF datatype.err # "none" THEN datatype
        ELSE
        Bind(expect(datatype.tokens, "Identifier"), LAMBDA name :
            IF name.err # "none" THEN name
            ELSE
            Bind(expect(name.tokens, "Semicolon"), LAMBDA semi :
                IF semi.err # "none" THEN semi
                ELSE IF semi.tokens = <<>> THEN Panic(semi.tokens)
                ELSE IF LastTok(semi.tokens).token_type = "CloseBrace"
                     THEN POk(Append(properties, <<datatype.ast.value, name.ast.value>>),
                              semi.tokens)
                ELSE PropertiesLoop(semi.tokens,
                                    Append(properties, <<datatype.ast.value, name.ast.value>>)))))

\* the arm of parse_type for `struct {`
AnonymousStruct(tokens) ==
    Bind(PropertiesLoop(Popped(tokens), <<>>), LAMBDA ps :
        IF ps.err # "none" THEN ps ELSE POk(StructType(ps.ast), ps.tokens))

\* the arm of parse_type for `struct name {`
NamedStruct(tokens) ==
    Bind(expect(Popped(tokens), "OpenBrace"), LAMBDA open :
        IF open.err # "none" THEN open
        ELSE Bind(PropertiesLoop(open.tokens, <<>>), LAMBDA ps :
                IF ps.err # "none" THEN ps
                ELSE POk(StructDecl(LastTok(tokens).value, ps.ast), ps.tokens)))

\* the Struct arm of parse_type, up to the closing expect
StructArm(tokens) ==
    IF tokens = <<>> THEN Panic(tokens)
    ELSE CASE LastTok(tokens).token_type = "OpenBrace" -> AnonymousStruct(tokens)
           [] LastTok(tokens).token_type = "Identifier" -> NamedStruct(tokens)
           [] OTHER -> PErr("InvalidToken", tokens)

\* fn parse_type
parse_type(tokens) ==
    IF tokens = <<>> THEN Panic(tokens)
    ELSE IF LastTok(tokens).token_type # "Struct" THEN PErr("InvalidToken", Popped(tokens))
    ELSE Bind(StructArm(Popped(tokens)), LAMBDA ast :
            IF ast.err # "none" THEN ast
            ELSE Bind(expect(ast.tokens, "CloseBrace"), LAMBDA close :
                    IF close.err # "none" THEN close ELSE POk(ast.ast, close.tokens)))

\* fn parse_typedef
parse_typedef(tokens) ==
    Bind(expect(tokens, "TypeDef"), LAMBDA kw :
        IF kw.err # "none" THEN kw
        ELSE
        Bind(parse_type(kw.tokens), LAMBDA ast :
            IF ast.err # "none" THEN ast
            ELSE Bind(expect(ast.tokens, "Identifier"), LAMBDA name :
                    IF name.err # "none" THEN name
                    ELSE POk(TypeDef(name.ast.value, ast.ast), name.tokens))))

\* the `match` of parse_stmt: the statement, before its ';' is asked for
StmtDispatch(tokens) ==
    IF tokens = <<>> THEN Panic(tokens)
    ELSE CASE LastTok(tokens).token_type = "Identifier" -> parse_var_decl(tokens)
           [] LastTok(tokens).token_type = "OpenBrace" -> parse_scope(tokens)
           [] LastTok(tokens).token_type = "TypeDef" -> parse_typedef(tokens)
           [] LastTok(tokens).token_type = "Struct" -> parse_type(tokens)
           [] OTHER -> parse_expr(tokens)

\* fn parse_stmt
parse_stmt(tokens) ==
    Bind(StmtDispatch(tokens), LAMBDA ast :
        IF ast.err # "none" THEN ast
        ELSE Bind(expect(ast.tokens, "Semicolon"), LAMBDA semi :
                IF semi.err # "none" THEN semi ELSE POk(ast.ast, semi.tokens)))

\* fn parse, one iteration of its loop on the reversed tokens: the statement is
\* pushed, and the loop ends with Ok(Program) when no token is left
ParseIteration(tokens, stmts) ==
    Bind(parse_stmt(tokens), LAMBDA ast :
        IF ast.err # "none" THEN [ret |-> ast.err, tokens |-> ast.tokens, body |-> stmts]
        ELSE [ret |-> IF Len(ast.tokens) = 0 THEN "Ok" ELSE "running",
              tokens |-> ast.tokens, body |-> Append(stmts, ast.ast)])

RECURSIVE ParseLoop(_, _)
ParseLoop(tokens, stmts) ==
    Bind(ParseIteration(tokens, stmts), LAMBDA r :
        IF r.ret = "running" THEN ParseLoop(r.tokens, r.body)
        ELSE IF r.ret = "Ok" THEN POk(Program(r.body), r.tokens)
        ELSE PErr(r.ret, r.tokens))

\* fn parse
parse(tokens) == Bind(Reverse(tokens), LAMBDA reversed : ParseLoop(reversed, <<>>))

\* One turn of lex's `while`: its condition, then its body
LexTurn(text, s) ==
    IF s.ret # "running" THEN s
    ELSE IF s.i >= Len(text) THEN LexState("Ok", s.i, s.tokens)
    ELSE LexIteration(text, s.i, s.tokens)

\* n turns of the loop from state s, taken half by half
RECURSIVE LexLoop(_, _, _)
LexLoop(text, s, n) ==
    IF n <= 1 THEN LexTurn(text, s)
    ELSE Bind(LexLoop(text, s, n \div 2), LAMBDA half :
            LexLoop(text, half, n - (n \div 2)))

\* fn lex as one call. The index alone decides an iteration, so a scan that has
\* not ended after Len(text) + 1 iterations has come back to an index and never
\* ends: "Diverges".
lex(text) ==
    Bind(text, LAMBDA t :
        Bind(LexLoop(t, LexState("running", 0, <<>>), Len(t) + 2), LAMBDA r :
            IF r.ret = "running" THEN LexState("Diverges", r.i, r.tokens) ELSE r))

\* build() of main.rs: lexer::lex(data).unwrap(), then parser::parse(tokens)
LexAndParse(text) ==
    Bind(lex(text), LAMBDA l :
        IF l.ret = "Ok" THEN parse(l.tokens)
        ELSE IF l.ret = "Diverges" THEN PErr("Diverges", <<>>)
        ELSE Panic(<<>>))

\* ------------------------------------------------------------------ ast.rs: Display

DigitChar(d) ==
    CASE d = 0 -> "0" [] d = 1 -> "1" [] d = 2 -> "2" [] d = 3 -> "3" [] d = 4 -> "4"
      [] d = 5 -> "5" [] d = 6 -> "6" [] d = 7 -> "7" [] d = 8 -> "8" [] d = 9 -> "9"

\* Display of an i32 that is not negative
RECURSIVE I32Text(_)
I32Text(n) == IF n < 10 THEN <<DigitChar(n)>> ELSE Append(I32Text(n \div 10), DigitChar(n % 10))

\* Display of an f32: no "." and no fraction when the fraction is zero
F32Text(n) == I32Text(n.whole) \o (IF n.frac = <<>> THEN <<>> ELSE <<".">> \o n.frac)

\* the lines written for a properties vector
RECURSIVE PropertiesText(_)
PropertiesText(properties) ==
    IF properties = <<>> THEN <<>>
    ELSE <<" ", " ", " ", " ">> \o Head(properties)[1] \o <<" ">> \o Head(properties)[2]
            \o <<";", "\n">> \o PropertiesText(Tail(properties))

RECURSIVE Display(_)

\* `write!(f, "{};\n", expr)` for each statement of a body
RECURSIVE StatementsText(_)
StatementsText(stmts) ==
    IF stmts = <<>> THEN <<>>
    ELSE Display(Head(stmts)) \o <<";", "\n">> \o StatementsText(Tail(stmts))

\* `write!(f, "{}, ", element)` for each element of a struct literal
RECURSIVE ElementsText(_)
ElementsText(data) ==
    IF data = <<>> THEN <<>>
    ELSE Display(Head(data)) \o <<",", " ">> \o ElementsText(Tail(data))

\* impl fmt::Display for Node
Display(n) ==
    CASE n.node = "Program" -> StatementsText(n.body)
      [] n.node = "Scope" -> <<"{">> \o StatementsText(n.body) \o <<"}">>
      [] n.node = "BinOp" -> Display(n.left) \o <<" ", "+", " ">> \o Display(n.right)
      [] n.node = "Integer" -> I32Text(n.number)
      [] n.node = "Float" -> F32Text(n)
      [] n.node = "VarDecl" ->
            n.datatype \o <<" ">> \o n.name \o <<" ", "=", " ">> \o Display(n.value)
      [] n.node = "StructDecl" ->
            <<"s", "t", "r", "u", "c", "t">> \o <<" ">> \o n.name \o <<" ", "{", "\n">> \o PropertiesText(n.properties) \o <<"}">>
      [] n.node = "TypeDef" -> <<"t", "y", "p", "e", "d", "e", "f">> \o <<" ">> \o Display(n.value) \o <<" ">> \o n.name
      [] n.node = "StructType" ->
            <<"s", "t", "r", "u", "c", "t">> \o <<" ", "{", "\n">> \o PropertiesText(n.properties) \o <<"}">>
      [] n.node = "Identifier" -> n.value
      [] n.node = "StructData" -> <<"{", " ">> \o ElementsText(n.data) \o <<"}">>

\* ------------------------------------------------------------------ parser.rs: parse, step by step

MaxToks == 4       \* tokens in a token vector drawn freely

\* a token as the parser reads it: the parser never looks at the span
Tok(type, value) == Token(type, value, 0, 0)

CoreTokens ==
    { Tok("Identifier", <<"a">>), Tok("Integer", <<"1">>), Tok("Add", <<"+">>),
      Tok("Equals", <<"=">>), Tok("Semicolon", <<";">>), Tok("OpenBrace", <<"{">>),
      Tok("CloseBrace", <<"}">>), Tok("Comma", <<",">>) }

\* texts of one statement of each kind
SampleTexts ==
    { <<"i", "n", "t", " ", "x", " ", "=", " ", "1", "+", "2", ";">>,
      <<"i", "n", "t", " ", "v", " ", "=", " ", "{", "1", ",", " ", "2", "}", ";">>,
      <<"{", " ", "i", "n", "t", " ", "x", " ", "=", " ", "1", ";", " ", "}", ";">>,
      <<"s", "t", "r", "u", "c", "t", " ", "s", " ", "{", " ", "i", "n", "t", " ", "x", ";", " ", "}", ";">>,
      <<"t", "y", "p", "e", "d", "e", "f", " ", "s", "t", "r", "u", "c", "t", " ", "{", " ", "i", "n", "t", " ", "x", ";", " ", "}", " ", "t", ";">>,
      <<"1", ".", "5", " ", "+", " ", "a", ";">>,
      <<"i", "n", "t", " ", "v", " ", "=", " ", "{", "1", " ", "2", "}", ";">>,
      <<"i", "n", "t", " ", "v", " ", "=", " ", "{", "1", ",", "}", ";">> }

SampleTokens == {lex(t).tokens : t \in SampleTexts}

SamplePrefixes == UNION {{SubSeq(ts, 1, k) : k \in 0..Len(ts)} : ts \in SampleTokens}

\* every vector of up to MaxToks core tokens; every prefix of the tokens of a
\* sample text, as it is and with one more core token after it
ParseInputs ==
    UNION {[1..k -> CoreTokens] : k \in 0..MaxToks}
    \cup SamplePrefixes
    \cup {Append(ts, t) : ts \in SamplePrefixes, t \in CoreTokens}

\* fn parse, entered: tokens.reverse(), body = vec![]
ParseStart ==
    /\ pret = "called"
    /\ ptoks' = Reverse(ptoks)
    /\ pbody' = <<>>
    /\ pret' = "running"
    /\ last' = [op |-> "reverse"]

\* fn parse: one iteration of its loop
ParseStatement ==
    /\ pret = "running"
    /\ LET r == ParseIteration(ptoks, pbody)
       IN  /\ ptoks' = r.tokens
           /\ pbody' = r.body
           /\ pret' = r.ret
    /\ last' = [op |-> "parse_stmt", pre |-> ptoks]

ParseInit ==
    /\ ptoks \in ParseInputs
    /\ pbody = <<>>
    /\ pret = "called"
    /\ NoGen /\ NoLex /\ NoRt /\ NoProg
    /\ pc = 0
    /\ last = [op |-> "none"]

ParseNext ==
    \/ (ParseStart /\ UNCHANGED <<genVars, lexVars, rt, progVars, pc>>)
    \/ (ParseStatement /\ UNCHANGED <<genVars, lexVars, rt, progVars, pc>>)

SpecParse == ParseInit /\ [][ParseNext]_vars

\* the statement the last iteration read was complete, and what followed it
\* was no ';': the tokens had run out, or another token stood there
StatementUnterminated ==
    /\ last.op = "parse_stmt"
    /\ StmtDispatch(last.pre).err = "none"
    /\ \/ StmtDispatch(last.pre).tokens = <<>>
       \/ LastTok(StmtDispatch(last.pre).tokens).token_type # "Semicolon"

\* C5: when a complete statement is not followed by ';', because the tokens
\* run out there or because another token follows, parse returns the error
\* ExpectedToken(Semicolon).
C5_MissingSemicolon == StatementUnterminated => pret = ExpectedToken("Semicolon")

\* a complete statement followed by a token other than ';' was refused with
\* ExpectedToken(Semicolon)
C5_Witness ==
    /\ StatementUnterminated
    /\ StmtDispatch(last.pre).tokens # <<>>
    /\ pret = ExpectedToken("Semicolon")

\* the tokens `{` `}` `;`, as parse reads them after tokens.reverse()
EmptyScopeTokens ==
    Reverse(<<Tok("OpenBrace", <<"{">>), Tok("CloseBrace", <<"}">>), Tok("Semicolon", <<";">>)>>)

\* the last iteration read a block whose first statement parse_stmt refuses
\* with a ParseError
MalformedInScope ==
    /\ last.op = "parse_stmt"
    /\ last.pre # <<>>
    /\ LastTok(last.pre).token_type = "OpenBrace"
    /\ Popped(last.pre) # <<>>
    /\ LastTok(Popped(last.pre)).token_type # "CloseBrace"
    /\ parse_stmt(Popped(last.pre)).err \notin {"none", "Panic"}

\* C12: the tokens `{` `}` `;` parse to a Program of one Scope with an empty
\* body; a block whose statement is malformed makes parse return that
\* statement's ParseError, not abort.
C12_ScopeBody ==
    /\ (last.op = "parse_stmt" /\ last.pre = EmptyScopeTokens)
        => (pret = "Ok" /\ pbody = <<Scope(<<>>)>>)
    /\ MalformedInScope => pret = parse_stmt(Popped(last.pre)).err

\* a block of one statement was parsed to a Scope
C12_Witness ==
    /\ last.op = "parse_stmt"
    /\ pret = "Ok"
    /\ pbody # <<>>
    /\ pbody[1].node = "Scope"
    /\ Len(pbody[1].body) = 1

\* the errors parse returns
ParseErrors ==
    {"InvalidToken"} \cup
    {ExpectedToken(t) : t \in {"Identifier", "Equals", "Semicolon", "OpenBrace", "CloseBrace", "TypeDef"}}

\* the statement the last iteration read, in source order
StatementRead == Reverse(last.pre)

\* the tokens read are `type name = {`, then only elements, `+` and commas,
\* then `}` `;`: one declaration with a literal that has no literal inside; k
\* is a position inside the literal or that of its `}`
InLiteral(k) ==
    /\ last.op = "parse_stmt"
    /\ Len(StatementRead) > k /\ k > 4
    /\ StatementRead[1].token_type = "Identifier"
    /\ StatementRead[2].token_type = "Identifier"
    /\ StatementRead[3].token_type = "Equals"
    /\ StatementRead[4].token_type = "OpenBrace"
    /\ \A j \in 5..(Len(StatementRead) - 2) :
          StatementRead[j].token_type \in {"Integer", "Float", "Identifier", "Add", "Comma"}
    /\ StatementRead[Len(StatementRead) - 1].token_type = "CloseBrace"
    /\ StatementRead[Len(StatementRead)].token_type = "Semicolon"

\* two elements of the literal stand side by side with no comma between them
AdjacentElements ==
    \E k \in 6..Len(last.pre) :
        /\ InLiteral(k)
        /\ StatementRead[k - 1].token_type \in {"Integer", "Float", "Identifier"}
        /\ StatementRead[k].token_type \in {"Integer", "Float", "Identifier"}

\* a comma stands right before the literal's `}`
TrailingComma ==
    \E k \in 6..Len(last.pre) :
        /\ InLiteral(k)
        /\ StatementRead[k - 1].token_type = "Comma"
        /\ StatementRead[k].token_type = "CloseBrace"

\* C13: a struct literal whose elements stand side by side with no comma, and
\* one with a comma before its `}`, are refused with a ParseError.
C13_LiteralCommas ==
    /\ (last.op = "parse_stmt" /\ AdjacentElements) => pret \in ParseErrors
    /\ (last.op = "parse_stmt" /\ TrailingComma) => pret \in ParseErrors

\* a literal with a comma before its `}` was refused with InvalidToken
C13_Witness ==
    /\ last.op = "parse_stmt"
    /\ TrailingComma
    /\ pret = "InvalidToken"

\* ------------------------------------------------------------------ print and parse again

MaxRtStmts == 2    \* statements in a source text of the round trip

StatementTexts ==
    { <<"i", "n", "t", " ", "x", " ", "=", " ", "1", ";">>,
      <<"i", "n", "t", " ", "y", " ", "=", " ", "1", " ", "+", " ", "x", ";">>,
      <<"i", "n", "t", " ", "v", " ", "=", " ", "{", "1", ",", " ", "2", "}", ";">>,
      <<"{", " ", "i", "n", "t", " ", "x", " ", "=", " ", "1", ";", " ", "}", ";">>,
      <<"s", "t", "r", "u", "c", "t", " ", "s", " ", "{", " ", "i", "n", "t", " ", "x", ";", " ", "i", "n", "t", " ", "y", ";", " ", "}", ";">>,
      <<"t", "y", "p", "e", "d", "e", "f", " ", "s", "t", "r", "u", "c", "t", " ", "{", " ", "i", "n", "t", " ", "x", ";", " ", "}", " ", "t", ";">>,
      <<"t", "y", "p", "e", "d", "e", "f", " ", "s", "t", "r", "u", "c", "t", " ", "s", " ", "{", " ", "i", "n", "t", " ", "x", ";", " ", "}", " ", "t", ";">>,
      <<"1", " ", "+", " ", "2", ";">>,
      <<"i", "n", "t", " ", "f", " ", "=", " ", "1", ".", "5", ";">>,
      <<"i", "n", "t", " ", "f", " ", "=", " ", "2", ".", "0", ";">> }

RECURSIVE TextsOf(_)
TextsOf(k) ==
    IF k = 0 THEN {<<>>}
    ELSE {t \o <<" ">> \o st : t \in TextsOf(k - 1), st \in StatementTexts}

RtSources == UNION {TextsOf(k) : k \in 1..MaxRtStmts}

RtState(stage, text, first, rendered, second) ==
    [stage |-> stage, text |-> text, first |-> first, rendered |-> rendered, second |-> second]

\* parse(lex(source))
RtParse ==
    /\ rt.stage = "source"
    /\ rt' = [rt EXCEPT !.stage = "parsed", !.first = LexAndParse(rt.text)]

\* the AST rendered: format!("{}", ast)
RtRender ==
    /\ rt.stage = "parsed"
    /\ rt.first.err = "none"
    /\ rt' = [rt EXCEPT !.stage = "rendered", !.rendered = Display(rt.first.ast)]

\* the rendered text lexed and parsed again
RtReparse ==
    /\ rt.stage = "rendered"
    /\ rt' = [rt EXCEPT !.stage = "reparsed", !.second = LexAndParse(rt.rendered)]

RtInit ==
    /\ \E t \in RtSources : rt = RtState("source", t, PErr("none yet", <<>>), <<>>, PErr("none yet", <<>>))
    /\ NoGen /\ NoLex /\ NoParse /\ NoProg
    /\ pc = 0
    /\ last = [op |-> "none"]

RtNext ==
    \/ (RtParse /\ UNCHANGED <<genVars, lexVars, parseVars, progVars, pc, last>>)
    \/ (RtRender /\ UNCHANGED <<genVars, lexVars, parseVars, progVars, pc, last>>)
    \/ (RtReparse /\ UNCHANGED <<genVars, lexVars, parseVars, progVars, pc, last>>)

SpecRT == RtInit /\ [][RtNext]_vars

\* C6: the text rendered from an AST that parse(lex(source)) produced lexes
\* and parses again, to the same AST.
C6_RoundTrip ==
    rt.stage = "reparsed" => (rt.second.err = "none" /\ rt.second.ast = rt.first.ast)

\* the round trip of an AST with a Scope, a StructDecl and a TypeDef gave the
\* AST back
C6_Witness ==
    /\ rt.stage = "reparsed"
    /\ rt.second.err = "none"
    /\ rt.second.ast = rt.first.ast
    /\ \E i \in 1..Len(rt.first.ast.body) : rt.first.ast.body[i].node \in {"Scope", "StructDecl", "TypeDef"}

====
